---- MODULE Spec2Model ----
(***************************************************************************)
(* Model of the Sonoff mini R3 client (src/src/client.rs, models.rs).      *)
(*                                                                         *)
(* A Client holds an immutable host and port.  Each of its three async     *)
(* operations builds a request, posts it (send().await?), reads and        *)
(* decodes the JSON body (json::<T>().await?) and converts the decoded     *)
(* envelope into the result (try_into()?).  The conversions of models.rs   *)
(* are modelled as operators; a Rust panic (unwrap on None, panic!) is a   *)
(* result kind of its own, distinct from Ok and Err.                       *)
(***************************************************************************)
EXTENDS Integers, Sequences, FiniteSets, TLC

VARIABLES
    host,       \* Client.host
    port,       \* Client.port
    state,      \* "Idle" | "Pending" | "Success" | "Failed" | "Panicked"
    stage,      \* await point of the pending future: "none" | "send" | "json"
    op,         \* operation of the current call: "none" | "info" | "startups" | "switches"
    arg,        \* argument of the current call (a position, or "none")
    request,    \* the request the current call posted
    sent,       \* number of HTTP requests the current call has issued
    response,   \* what the current call received (status, then body)
    outcome,    \* the value the current call returned
    calls,      \* number of calls started on this client
    last        \* history: the call that finished before the current one

vars == <<host, port, state, stage, op, arg, request, sent, response, outcome, calls, last>>

(***************************************************************************)
(* Bounds of the model.                                                    *)
(***************************************************************************)
\* total number of outlet entries (switches + configure) in an info payload
MaxEntries == 3
\* largest outlet index a device response may carry
MaxOutlet == 1
\* number of calls issued on one client
MaxCalls == 2

\* const OUTLET2USE: u8 = 0
OUTLET2USE == 0
\* for i in 1..=3
LastOutlet == 3

Hosts == {"192.168.1.75", "localhost"}
Ports == {8081}
HttpStatuses == {200, 400}
ErrorCodes == {0, 400, 401}

(***************************************************************************)
(* Domain enums and their wire tokens (serde rename_all = "lowercase").    *)
(***************************************************************************)
SwitchPositions == {"On", "Off"}
StartupPositions == {"On", "Off", "Stay"}
WireTokens == {"on", "off", "stay"}

\* Serialize for SwitchPosition
SerSwitchPosition(p) ==
    CASE p = "On" -> "on"
      [] p = "Off" -> "off"

\* Serialize for StartupPosition
SerStartupPosition(p) ==
    CASE p = "On" -> "on"
      [] p = "Off" -> "off"
      [] p = "Stay" -> "stay"

\* Deserialize for SwitchPosition: an unknown variant is a decode error
DeSwitchPosition(tok) ==
    CASE tok = "on" -> [kind |-> "Ok", value |-> "On"]
      [] tok = "off" -> [kind |-> "Ok", value |-> "Off"]
      [] OTHER -> [kind |-> "Err", value |-> "unknown variant"]

\* variant of DeStartupPosition that knows the tokens of SwitchPosition only
DeStartupPositionNoStay(tok) ==
    CASE tok = "on" -> [kind |-> "Ok", value |-> "On"]
      [] tok = "off" -> [kind |-> "Ok", value |-> "Off"]
      [] OTHER -> [kind |-> "Err", value |-> "unknown variant"]

\* Deserialize for StartupPosition
DeStartupPosition(tok) ==
    CASE tok = "on" -> [kind |-> "Ok", value |-> "On"]
      [] tok = "off" -> [kind |-> "Ok", value |-> "Off"]
      [] tok = "stay" -> [kind |-> "Ok", value |-> "Stay"]
      [] OTHER -> [kind |-> "Err", value |-> "unknown variant"]

(***************************************************************************)
(* Results.  Every result is a record with the same fields, so that any    *)
(* two can be compared.                                                    *)
(***************************************************************************)
Nothing == [kind |-> "none", switch |-> "none", startup |-> "none"]
Unit == [kind |-> "unit", switch |-> "none", startup |-> "none"]
Info(sw, st) == [kind |-> "Info", switch |-> sw, startup |-> st]

\* an error value: its kind and, for a device error, the device's code
ErrorValue(type, code) == [type |-> type, code |-> code]
NoError == ErrorValue("none", 0)
\* enum Error { WrongParameters }
WrongParameters == ErrorValue("WrongParameters", 400)
\* reqwest::Error of send() or of reading the body
TransportError == ErrorValue("transport", 0)
\* reqwest::Error of json(): the body does not deserialize
DecodeError == ErrorValue("decode", 0)

NoOutcome == [kind |-> "none", value |-> Nothing, error |-> NoError]
Ok(v) == [kind |-> "Ok", value |-> v, error |-> NoError]
Err(e) == [kind |-> "Err", value |-> Nothing, error |-> e]
Panic(msg) == [kind |-> "panic", value |-> Nothing, error |-> ErrorValue(msg, 0)]

\* Error::from_api_error_code
from_api_error_code(code) ==
    IF code = 400 THEN Err(WrongParameters)
    ELSE Panic("Unexpected api error")

(***************************************************************************)
(* JSON bodies on the wire.  A response body is either not decodable at    *)
(* all ("garbage") or an envelope {data, error}.  The data member is null  *)
(* or absent ("null"), an object that does not have the info fields        *)
(* ("mismatch", for example {}), or an info object with its two lists.     *)
(***************************************************************************)
Outlets == 0..MaxOutlet
SwitchEntries == [switch : WireTokens, outlet : Outlets]
StartupEntries == [startup : WireTokens, outlet : Outlets]

SeqsOfLen(S, n) == [1..n -> S]
SeqsUpTo(S, n) == UNION {SeqsOfLen(S, k) : k \in 0..n}

NullData == [kind |-> "null", switches |-> <<>>, configure |-> <<>>]
MismatchData == [kind |-> "mismatch", switches |-> <<>>, configure |-> <<>>]
InfoObjects ==
    UNION {{[kind |-> "object", switches |-> s, configure |-> c] :
              s \in SeqsOfLen(SwitchEntries, a),
              c \in SeqsUpTo(StartupEntries, MaxEntries - a)} : a \in 0..MaxEntries}
WireData == {NullData, MismatchData} \cup InfoObjects

Garbage == [kind |-> "garbage", error |-> 0, data |-> NullData]
Envelope(e, d) == [kind |-> "envelope", error |-> e, data |-> d]
Unread == [kind |-> "unread", error |-> 0, data |-> NullData]
InfoBodies == {Garbage} \cup {Envelope(e, d) : e \in ErrorCodes, d \in WireData}

NoResponse == [status |-> 0, body |-> Unread]

(***************************************************************************)
(* serde_json decoding of the response structs.                            *)
(***************************************************************************)
DecodeOk(v) == [ok |-> TRUE, value |-> v]
DecodeErr == [ok |-> FALSE, value |-> "decode error"]

\* Deserialize for Switch { switch: SwitchPosition, outlet: u8 }
DecodeSwitch(e) == [switch |-> DeSwitchPosition(e.switch).value, outlet |-> e.outlet]
\* Deserialize for Startup { startup: StartupPosition, outlet: u8 }
DecodeStartup(e) == [startup |-> DeStartupPosition(e.startup).value, outlet |-> e.outlet]

\* Deserialize for InfoData { switches: Vec<Switch>, configure: Vec<Startup> }
DecodeInfoData(d) ==
    IF d.kind = "null" THEN DecodeOk([kind |-> "None", switches |-> <<>>, configure |-> <<>>])
    ELSE IF d.kind = "mismatch" THEN DecodeErr
    ELSE IF \E i \in DOMAIN d.switches : DeSwitchPosition(d.switches[i].switch).kind = "Err"
         THEN DecodeErr
    ELSE IF \E i \in DOMAIN d.configure : DeStartupPosition(d.configure[i].startup).kind = "Err"
         THEN DecodeErr
    ELSE DecodeOk([kind |-> "Some",
                   switches |-> [i \in DOMAIN d.switches |-> DecodeSwitch(d.switches[i])],
                   configure |-> [i \in DOMAIN d.configure |-> DecodeStartup(d.configure[i])]])

\* Deserialize for InfoResponse { data: Option<InfoData>, error: usize }
DecodeInfoResponse(body) ==
    IF body.kind # "envelope" THEN DecodeErr
    ELSE LET d == DecodeInfoData(body.data) IN
         IF ~d.ok THEN DecodeErr
         ELSE DecodeOk([data |-> d.value, error |-> body.error])

\* Deserialize for EmptyResponse { error: usize }: other members are ignored
DecodeEmptyResponse(body) ==
    IF body.kind # "envelope" THEN DecodeErr
    ELSE DecodeOk([error |-> body.error])

(***************************************************************************)
(* Conversions of the decoded envelopes (models.rs).                       *)
(***************************************************************************)
None == [kind |-> "None", index |-> 0]
Some(i) == [kind |-> "Some", index |-> i]

\* into_iter().find(|s| s.outlet == OUTLET2USE), from position i on
RECURSIVE FindFrom(_, _)
FindFrom(entries, i) ==
    IF i > Len(entries) THEN None
    ELSE IF entries[i].outlet = OUTLET2USE THEN Some(i)
    ELSE FindFrom(entries, i + 1)

\* variant of find that takes the first entry whatever its outlet
findFirstEntry(entries) == IF Len(entries) = 0 THEN None ELSE Some(1)

find(entries) == FindFrom(entries, 1)

\* impl TryFrom<InfoResponse> for Info
TryFromInfoResponse(value) ==
    IF value.error = 0 THEN
        IF value.data.kind = "None" THEN Panic("unwrap on None")
        ELSE LET sw == find(value.data.switches)
                 st == find(value.data.configure)
             IN  IF sw.kind = "None" THEN Panic("unwrap on None")
                 ELSE IF st.kind = "None" THEN Panic("unwrap on None")
                 ELSE Ok(Info(value.data.switches[sw.index].switch,
                              value.data.configure[st.index].startup))
    ELSE from_api_error_code(value.error)

\* impl TryFrom<EmptyResponse> for ()
TryFromEmptyResponse(value) ==
    IF value.error = 0 THEN Ok(Unit)
    ELSE from_api_error_code(value.error)

(***************************************************************************)
(* Request builders (models.rs).                                           *)
(***************************************************************************)
\* for i in 1..=3 { startups.push(Startup { startup: Off, outlet: i }) }
RECURSIVE PushOff(_, _)
PushOff(startups, i) ==
    IF i > LastOutlet THEN startups
    ELSE PushOff(Append(startups, [startup |-> "Off", outlet |-> i]), i + 1)

\* variant of StartupsRequestFrom that pushes the requested value for every outlet
StartupsRequestFromAll(value) ==
    [data |-> [configure |->
        [i \in 1..(LastOutlet + 1) |-> [startup |-> value, outlet |-> i - 1]]]]

\* impl From<StartupPosition> for StartupsRequest
StartupsRequestFrom(value) ==
    [data |-> [configure |-> PushOff(<<[startup |-> value, outlet |-> OUTLET2USE]>>, 1)]]

\* variant of SwitchesRequestFrom that lists every outlet, as the startup request does
SwitchesRequestFromAll(value) ==
    [data |-> [switches |->
        [i \in 1..(LastOutlet + 1) |->
            [switch |-> IF i = 1 THEN value ELSE "Off", outlet |-> i - 1]]]]

\* impl From<SwitchPosition> for SwitchesRequest
SwitchesRequestFrom(value) ==
    [data |-> [switches |-> <<[switch |-> value, outlet |-> OUTLET2USE]>>]]

\* Serialize for StartupsRequest / StartupsData / Startup
SerializeStartupsRequest(req) ==
    [data |-> [configure |->
        [i \in DOMAIN req.data.configure |->
            [startup |-> SerStartupPosition(req.data.configure[i].startup),
             outlet |-> req.data.configure[i].outlet]]]]

\* Serialize for SwitchesRequest / SwitchesData / Switch
SerializeSwitchesRequest(req) ==
    [data |-> [switches |->
        [i \in DOMAIN req.data.switches |->
            [switch |-> SerSwitchPosition(req.data.switches[i].switch),
             outlet |-> req.data.switches[i].outlet]]]]

\* the literal body of fetch_info
InfoRequestBody == [raw |-> "{\"data\":{}}"]

(***************************************************************************)
(* The client (client.rs).                                                 *)
(***************************************************************************)
\* Client::url: format!("http://{host}:{port}/zeroconf/{path}")
url(path) == <<"http://", host, ":", port, "/zeroconf/", path>>

\* self.inner.post(url).body(..) / .json(..)
Post(path, body) == [method |-> "POST", url |-> url(path), body |-> body]
NoRequest == [method |-> "none", url |-> <<>>, body |-> [raw |-> ""]]

\* bodies a device may answer a set operation with
SetData == {d \in WireData : Len(d.switches) + Len(d.configure) <= 1}
SetBodies == {Garbage} \cup {Envelope(e, d) : e \in ErrorCodes, d \in SetData}

\* Client::new
Init ==
    /\ host \in Hosts
    /\ port \in Ports
    /\ state = "Idle"
    /\ stage = "none"
    /\ op = "none"
    /\ arg = "none"
    /\ request = NoRequest
    /\ sent = 0
    /\ response = NoResponse
    /\ outcome = NoOutcome
    /\ calls = 0
    /\ last = [op |-> "none", arg |-> "none", request |-> NoRequest,
               response |-> NoResponse, outcome |-> NoOutcome]

\* &self: the client can be called whenever no call is in flight, also after
\* a call that panicked when the caller caught the unwinding
CanCall == state \in {"Idle", "Success", "Failed", "Panicked"} /\ calls < MaxCalls

\* the first poll of an operation's future: build the request and send it
Start(o, a, path, body) ==
    /\ CanCall
    /\ state' = "Pending"
    /\ stage' = "send"
    /\ op' = o
    /\ arg' = a
    /\ request' = Post(path, body)
    /\ sent' = 1
    /\ response' = NoResponse
    /\ outcome' = NoOutcome
    /\ calls' = calls + 1
    /\ UNCHANGED <<host, port>>

\* Client::fetch_info, up to send().await
FetchInfo == Start("info", "none", "info", InfoRequestBody)

\* Client::set_startup_position, up to send().await
SetStartupPosition(position) ==
    Start("startups", position, "startups",
          SerializeStartupsRequest(StartupsRequestFrom(position)))

\* Client::set_switch_position, up to send().await
SetSwitchPosition(position) ==
    Start("switches", position, "switches",
          SerializeSwitchesRequest(SwitchesRequestFrom(position)))

\* variant of Finish in which a client that has served a call fails every later one
FinishPoisoned(result) ==
    /\ state' = IF calls > 1 THEN "Failed"
                ELSE CASE result.kind = "Ok" -> "Success"
                       [] result.kind = "Err" -> "Failed"
                       [] OTHER -> "Panicked"
    /\ stage' = "none"
    /\ outcome' = IF calls > 1 THEN Err(TransportError) ELSE result

\* the future returns: Ok(..) of try_into()?, an Err of one of the ?s, or a panic
Finish(result) ==
    /\ state' = CASE result.kind = "Ok" -> "Success"
                  [] result.kind = "Err" -> "Failed"
                  [] OTHER -> "Panicked"
    /\ stage' = "none"
    /\ outcome' = result

\* send().await? fails: the transport error is returned
SendFails ==
    /\ state = "Pending" /\ stage = "send"
    /\ Finish(Err(TransportError))
    /\ UNCHANGED <<host, port, op, arg, request, sent, response, calls>>

\* send().await? yields the response head, whatever its status
SendCompletes(status) ==
    /\ state = "Pending" /\ stage = "send"
    /\ stage' = "json"
    /\ response' = [status |-> status, body |-> Unread]
    /\ UNCHANGED <<host, port, state, op, arg, request, sent, outcome, calls>>

\* json::<T>().await? fails while the body is read
BodyReadFails ==
    /\ state = "Pending" /\ stage = "json"
    /\ Finish(Err(TransportError))
    /\ UNCHANGED <<host, port, op, arg, request, sent, response, calls>>

\* json::<InfoResponse>().await?.try_into()? of fetch_info
InfoResult(body) ==
    LET d == DecodeInfoResponse(body) IN
    IF ~d.ok THEN Err(DecodeError) ELSE TryFromInfoResponse(d.value)

\* json::<EmptyResponse>().await?.try_into()? of the set operations
EmptyResult(body) ==
    LET d == DecodeEmptyResponse(body) IN
    IF ~d.ok THEN Err(DecodeError) ELSE TryFromEmptyResponse(d.value)

\* the body of fetch_info's response arrives: decode and convert
InfoBodyArrives(bodies) ==
    /\ state = "Pending" /\ stage = "json" /\ op = "info"
    /\ \E body \in bodies :
          /\ response' = [response EXCEPT !.body = body]
          /\ Finish(InfoResult(body))
    /\ UNCHANGED <<host, port, op, arg, request, sent, calls>>

\* the body of a set operation's response arrives: decode and convert
EmptyBodyArrives(bodies) ==
    /\ state = "Pending" /\ stage = "json" /\ op \in {"startups", "switches"}
    /\ \E body \in bodies :
          /\ response' = [response EXCEPT !.body = body]
          /\ Finish(EmptyResult(body))
    /\ UNCHANGED <<host, port, op, arg, request, sent, calls>>

Next ==
    \/ FetchInfo /\ UNCHANGED last
    \/ (\E position \in StartupPositions : SetStartupPosition(position)) /\ UNCHANGED last
    \/ (\E position \in SwitchPositions : SetSwitchPosition(position)) /\ UNCHANGED last
    \/ SendFails /\ UNCHANGED last
    \/ (\E status \in HttpStatuses : SendCompletes(status)) /\ UNCHANGED last
    \/ BodyReadFails /\ UNCHANGED last
    \/ InfoBodyArrives(InfoBodies) /\ UNCHANGED last
    \/ EmptyBodyArrives(SetBodies) /\ UNCHANGED last

Spec == Init /\ [][Next]_vars

(***************************************************************************)
(* The same client with the history variable recorded: when a call starts, *)
(* last takes the call that finished before it.  The device's answers are  *)
(* drawn from a smaller set, since every state then holds two calls.       *)
(***************************************************************************)
Remember ==
    last' = [op |-> op, arg |-> arg, request |-> request,
             response |-> response, outcome |-> outcome]

ReuseData ==
    {NullData, MismatchData} \cup
    {[kind |-> "object",
      switches |-> <<[switch |-> t, outlet |-> OUTLET2USE]>>,
      configure |-> <<[startup |-> u, outlet |-> OUTLET2USE]>>] :
        t \in WireTokens, u \in WireTokens}
ReuseInfoBodies == {Garbage} \cup {Envelope(e, d) : e \in ErrorCodes, d \in ReuseData}
ReuseSetBodies == {Garbage} \cup {Envelope(e, NullData) : e \in ErrorCodes}

NextReuse ==
    \/ FetchInfo /\ Remember
    \/ (\E position \in StartupPositions : SetStartupPosition(position)) /\ Remember
    \/ (\E position \in SwitchPositions : SetSwitchPosition(position)) /\ Remember
    \/ SendFails /\ UNCHANGED last
    \/ (\E status \in HttpStatuses : SendCompletes(status)) /\ UNCHANGED last
    \/ BodyReadFails /\ UNCHANGED last
    \/ InfoBodyArrives(ReuseInfoBodies) /\ UNCHANGED last
    \/ EmptyBodyArrives(ReuseSetBodies) /\ UNCHANGED last

SpecReuse == Init /\ [][NextReuse]_vars

(***************************************************************************)
(* Properties.                                                             *)
(***************************************************************************)
\* the current call has returned or panicked
Finished == state \in {"Success", "Failed", "Panicked"}
\* the current call received a JSON envelope
GotEnvelope == Finished /\ response.body.kind = "envelope"
\* the wire format of the spec: lowercase tokens
TokenOf == [On |-> "on", Off |-> "off", Stay |-> "stay"]
PositionOf == [on |-> "On", off |-> "Off", stay |-> "Stay"]
\* an info payload whose entries all deserialize
WellFormedInfo(d) ==
    /\ d.kind = "object"
    /\ \A i \in DOMAIN d.switches : d.switches[i].switch \in {"on", "off"}
    /\ \A i \in DOMAIN d.configure : d.configure[i].startup \in {"on", "off", "stay"}
\* the response deserializes into the envelope type of the current operation
EnvelopeDecodes ==
    /\ GotEnvelope
    /\ op = "info" => (response.body.data.kind = "null" \/ WellFormedInfo(response.body.data))
HasOutlet0(entries) == \E i \in DOMAIN entries : entries[i].outlet = 0
FirstOutlet0(entries) ==
    CHOOSE i \in DOMAIN entries :
        entries[i].outlet = 0 /\ \A j \in 1..(i - 1) : entries[j].outlet # 0
\* error kinds the spec calls a malformed response
MalformedKinds == {"decode", "malformed"}

\* C1: a nonzero device error code other than 400 in a decoded envelope, on
\* any of the three operations, makes the call return a typed "unknown device
\* error code N" error carrying N; the call never panics.
C1_UnknownCodeIsTypedError ==
    (EnvelopeDecodes /\ response.body.error \notin {0, 400})
        => /\ state = "Failed"
           /\ outcome = Err(ErrorValue("UnknownCode", response.body.error))

\* C2: a success envelope of fetch_info whose switches or configure list has
\* no entry with outlet 0 makes fetch_info return a malformed-response error;
\* it never panics.
C2_MissingOutletIsMalformed ==
    (/\ EnvelopeDecodes /\ op = "info" /\ response.body.error = 0
     /\ response.body.data.kind = "object"
     /\ (~HasOutlet0(response.body.data.switches) \/ ~HasOutlet0(response.body.data.configure)))
        => /\ state = "Failed"
           /\ outcome.kind = "Err"
           /\ outcome.error.type \in MalformedKinds

\* C3: a success envelope of fetch_info whose data is null or absent makes
\* fetch_info return a malformed-response error; it never panics.
C3_NullDataIsMalformed ==
    (/\ GotEnvelope /\ op = "info" /\ response.body.error = 0
     /\ response.body.data.kind = "null")
        => /\ state = "Failed"
           /\ outcome.kind = "Err"
           /\ outcome.error.type \in MalformedKinds

\* C4: on each of the three operations an envelope with error 400 yields the
\* WrongParameters error, whatever the data member holds and whatever the HTTP
\* status is.
C4_Error400IsWrongParameters ==
    (GotEnvelope /\ response.body.error = 400)
        => /\ state = "Failed"
           /\ outcome = Err(WrongParameters)

\* what holds of the code for C4: error 400 yields WrongParameters whenever
\* the envelope deserializes (for fetch_info: data null, absent or well formed)
C4_Error400WhenDecodes ==
    (EnvelopeDecodes /\ response.body.error = 400)
        => /\ state = "Failed"
           /\ outcome = Err(WrongParameters)

\* C5: the startup request built from a position p has a configure list of
\* exactly 4 entries, outlets 0, 1, 2, 3 in that order, outlet 0 carrying p and
\* outlets 1 to 3 carrying off.
C5_StartupRequestShape ==
    op = "startups"
        => /\ arg \in StartupPositions
           /\ request.body.data.configure =
                <<[startup |-> TokenOf[arg], outlet |-> 0],
                  [startup |-> "off", outlet |-> 1],
                  [startup |-> "off", outlet |-> 2],
                  [startup |-> "off", outlet |-> 3]>>
C5_Witness ==
    op = "startups" /\ arg = "Stay" /\ state = "Success" /\ sent = 1

\* C6: the switch request built from a position p has a switches list of
\* exactly one entry, outlet 0 carrying p; no other outlet is listed.
C6_SwitchRequestShape ==
    op = "switches"
        => /\ arg \in SwitchPositions
           /\ request.body.data.switches = <<[switch |-> TokenOf[arg], outlet |-> 0]>>
C6_Witness ==
    op = "switches" /\ arg = "On" /\ state = "Failed" /\ sent = 1

\* C7: for a success envelope whose switches and configure lists each hold an
\* entry with outlet 0, fetch_info returns Info{switch, startup} taken from the
\* (first) outlet-0 entry of each list, wherever it sits and whatever the
\* entries of the other outlets carry.
C7_InfoFromOutlet0 ==
    (/\ EnvelopeDecodes /\ op = "info" /\ response.body.error = 0
     /\ response.body.data.kind = "object"
     /\ HasOutlet0(response.body.data.switches)
     /\ HasOutlet0(response.body.data.configure))
        => LET d == response.body.data
               sw == d.switches[FirstOutlet0(d.switches)]
               st == d.configure[FirstOutlet0(d.configure)]
           IN  /\ state = "Success"
               /\ outcome = Ok(Info(PositionOf[sw.switch], PositionOf[st.startup]))
C7_Witness ==
    /\ state = "Success" /\ op = "info"
    /\ response.body.data.switches =
         <<[switch |-> "off", outlet |-> 1], [switch |-> "on", outlet |-> 0]>>
    /\ response.body.data.configure = <<[startup |-> "stay", outlet |-> 0]>>
    /\ outcome.value = Info("On", "Stay")

\* the pair encoded with the wire tokens as the outlet-0 entries of a success envelope
EncodeInfo(sw, st) ==
    Envelope(0, [kind |-> "object",
                 switches |-> <<[switch |-> SerSwitchPosition(sw), outlet |-> OUTLET2USE]>>,
                 configure |-> <<[startup |-> SerStartupPosition(st), outlet |-> OUTLET2USE]>>])

\* C8: round trip: for every SwitchPosition and StartupPosition, decoding the
\* success envelope that encodes the pair gives the pair back, and the token
\* mapping is one to one on each enum.
C8_RoundTrip ==
    /\ \A sw \in SwitchPositions, st \in StartupPositions :
          (Finished /\ op = "info" /\ response.body = EncodeInfo(sw, st))
              => (state = "Success" /\ outcome = Ok(Info(sw, st)))
    /\ \A a, b \in SwitchPositions :
          /\ SerSwitchPosition(a) = SerSwitchPosition(b) => a = b
          /\ DeSwitchPosition(SerSwitchPosition(a)) = [kind |-> "Ok", value |-> a]
    /\ \A a, b \in StartupPositions :
          /\ SerStartupPosition(a) = SerStartupPosition(b) => a = b
          /\ DeStartupPosition(SerStartupPosition(a)) = [kind |-> "Ok", value |-> a]
C8_Witness ==
    /\ Finished /\ op = "info"
    /\ response.body = EncodeInfo("On", "Stay")
    /\ outcome = Ok(Info("On", "Stay"))

\* C9: every call issues exactly one HTTP exchange and ends in exactly one of
\* Success(value) or Failed(error); a failure at an earlier stage ends the
\* call without running a later one.
C9_PendingToSuccessOrFailed ==
    /\ state \in {"Idle", "Pending", "Success", "Failed"}
    /\ state # "Idle" => sent = 1
    /\ state = "Success" => outcome.kind = "Ok"
    /\ state = "Failed" => outcome.kind = "Err"
    /\ (state = "Failed" /\ response.status = 0) => response.body.kind = "unread"

\* what holds of the code for C9: one exchange per call, and the call ends in
\* Success, Failed or a panic
C9_OneExchange ==
    /\ state # "Idle" => sent = 1
    /\ state = "Success" <=> outcome.kind = "Ok"
    /\ state = "Failed" <=> outcome.kind = "Err"
    /\ state = "Panicked" <=> outcome.kind = "panic"
    /\ state = "Pending" <=> (outcome.kind = "none" /\ op # "none")
    /\ response.body.kind = "unread" => outcome.kind \in {"none", "Err"}

\* the current call had the operation, argument and response of the call before it
SameInput ==
    /\ last.op = op /\ last.arg = arg /\ last.response = response

====
